---- MODULE Spec2Model ----
(***************************************************************************)
(* A model of the IMAP session engine of samuel/go-imapd (package imapd). *)
(*                                                                         *)
(* Strings the code inspects character by character (command names, range *)
(* sets, item lists) are sequences of one-character strings.  Text written *)
(* to the client is a sequence of pieces: the literal segments of the Go   *)
(* format string, and the characters of each formatted argument.           *)
(***************************************************************************)
EXTENDS Integers, Sequences, FiniteSets, TLC

VARIABLES srv, listening, crashed, sess, last, resp, call

vars == <<srv, listening, crashed, sess, last, resp, call>>

(***************************************************************************)
(* Bounds of the model.                                                    *)
(***************************************************************************)
\* lines one transport Read may deliver to the buffered reader at once
MaxBurst == 2

\* tokens of a range set handed to parseRangeSet
MaxRangeTokens == 3

\* tokens of an item list handed to parseMessageDataItemNames
MaxItemTokens == 2

\* a failing transport fails a handler's write number MaxGoodWrites + 1 at the
\* latest
MaxGoodWrites == 1

(***************************************************************************)
(* Strings.                                                                *)
(***************************************************************************)
Lower == <<"a","b","c","d","e","f","g","h","i","j","k","l","m",
           "n","o","p","q","r","s","t","u","v","w","x","y","z">>

Upper == <<"A","B","C","D","E","F","G","H","I","J","K","L","M",
           "N","O","P","Q","R","S","T","U","V","W","X","Y","Z">>

Digits == <<"0","1","2","3","4","5","6","7","8","9">>

Elems(f) == {f[i] : i \in DOMAIN f}

IndexIn(tbl, ch) == CHOOSE i \in DOMAIN tbl : tbl[i] = ch

LowerSet == Elems(Lower)

UpperSet == Elems(Upper)

DigitSet == Elems(Digits)

LowerOf == [ch \in UpperSet |-> Lower[IndexIn(Upper, ch)]]

UpperOf == [ch \in LowerSet |-> Upper[IndexIn(Lower, ch)]]

DigitValue == [ch \in DigitSet |-> IndexIn(Digits, ch) - 1]

ToLowerCh(ch) == IF ch \in UpperSet THEN LowerOf[ch] ELSE ch

ToUpperCh(ch) == IF ch \in LowerSet THEN UpperOf[ch] ELSE ch

IsLetter(ch) == ch \in LowerSet \/ ch \in UpperSet

\* strings.ToLower
ToLower(str) == [i \in DOMAIN str |-> ToLowerCh(str[i])]

\* strings.ToUpper
ToUpper(str) == [i \in DOMAIN str |-> ToUpperCh(str[i])]

\* decimal digits of a natural number (the %d verb, strconv.Itoa)
RECURSIVE Itoa(_)
Itoa(n) == IF n < 10 THEN <<Digits[n + 1]>>
           ELSE Itoa(n \div 10) \o <<Digits[(n % 10) + 1]>>

RECURSIVE Flatten(_)
Flatten(ss) == IF ss = <<>> THEN <<>> ELSE Head(ss) \o Flatten(Tail(ss))

\* strings.Join(elems, " ")
RECURSIVE JoinSp(_)
JoinSp(elems) ==
    IF elems = <<>> THEN <<>>
    ELSE IF Len(elems) = 1 THEN elems[1]
    ELSE elems[1] \o <<" ">> \o JoinSp(Tail(elems))

(***************************************************************************)
(* fmt: a format is the sequence of its literal segments and verbs; a verb *)
(* consumes the next argument, and prints %!s(MISSING) when there is none. *)
(***************************************************************************)
IsVerb(p) == p \in {"%s", "%d"}

Missing(p) == IF p = "%d" THEN "%!d(MISSING)" ELSE "%!s(MISSING)"

RECURSIVE Sprintf(_, _)
Sprintf(format, args) ==
    IF format = <<>> THEN <<>>
    ELSE IF IsVerb(Head(format))
         THEN IF args = <<>>
              THEN <<Missing(Head(format))>> \o Sprintf(Tail(format), args)
              ELSE Head(args) \o Sprintf(Tail(format), Tail(args))
         ELSE <<Head(format)>> \o Sprintf(Tail(format), args)

CRLF == "\r\n"

\* session.sendf: the formatted text goes to the buffered writer, which is
\* then flushed
sendf(format, args) == [text |-> Sprintf(format, args), flush |-> TRUE]

\* session.sendlinef
sendlinef(format, args) == sendf(format \o <<CRLF>>, args)

\* s.bw.Write(t): the bytes stay in the buffered writer until the next flush
bwWrite(t) == [text |-> t, flush |-> FALSE]

\* s.bw.Flush() on its own
bwFlush == [text |-> <<>>, flush |-> TRUE]

(***************************************************************************)
(* strings and strconv                                                     *)
(***************************************************************************)
\* a nil interface, pointer or error
Nil == "nil"

IsDigit(ch) == ch \in DigitSet

IsSpace(ch) == ch \in {" ", "\t", "\n", "\r", "\f"}

HasCh(str, sep) == \E i \in DOMAIN str : str[i] = sep

FirstCh(str, sep) == CHOOSE i \in DOMAIN str : str[i] = sep /\ \A j \in 1..(i - 1) : str[j] # sep

\* F applied to the value of x, which is computed once
With(x, F(_)) == CHOOSE r \in {F(v) : v \in {x}} : TRUE

\* strings.Split(str, sep) for a one-character separator
RECURSIVE Split(_, _)
Split(str, sep) ==
    With(str, LAMBDA s :
        IF ~HasCh(s, sep) THEN <<s>>
        ELSE With(FirstCh(s, sep), LAMBDA i :
                <<SubSeq(s, 1, i - 1)>> \o Split(SubSeq(s, i + 1, Len(s)), sep)))

AllDigits(str) == str # <<>> /\ \A i \in DOMAIN str : IsDigit(str[i])

(***************************************************************************)
(* A number is kept as its decimal numeral without leading zeros, so that  *)
(* the full uint32 and int ranges are represented.                         *)
(***************************************************************************)
RECURSIVE Canon(_)
Canon(str) == IF Len(str) > 1 /\ str[1] = "0" THEN Canon(Tail(str)) ELSE str

\* a <= b for digit strings of one length
RECURSIVE DigitsLeq(_, _)
DigitsLeq(a, b) ==
    IF a = <<>> THEN TRUE
    ELSE IF a[1] # b[1] THEN DigitValue[a[1]] < DigitValue[b[1]]
    ELSE DigitsLeq(Tail(a), Tail(b))

\* a <= b for numerals without leading zeros
NumLeq(a, b) == Len(a) < Len(b) \/ (Len(a) = Len(b) /\ DigitsLeq(a, b))

Zero == <<"0">>

\* 1<<32 - 1
MaxUint32 == <<"4","2","9","4","9","6","7","2","9","5">>

\* 1<<63 - 1
MaxInt == <<"9","2","2","3","3","7","2","0","3","6","8","5","4","7","7","5","8","0","7">>

\* 1<<63
MinIntMagnitude == <<"9","2","2","3","3","7","2","0","3","6","8","5","4","7","7","5","8","0","8">>

\* strconv.ParseUint(str, 10, 32)
ParseUint32(str) ==
    IF AllDigits(str) /\ NumLeq(Canon(str), MaxUint32)
    THEN [ok |-> TRUE, v |-> Canon(str)]
    ELSE [ok |-> FALSE, v |-> Zero]

\* strconv.Atoi: an optional sign and digits, within the range of int
Atoi(str) ==
    LET signed == str # <<>> /\ str[1] \in {"+", "-"}
        neg == str # <<>> /\ str[1] = "-"
        body == IF signed THEN Tail(str) ELSE str
        limit == IF neg THEN MinIntMagnitude ELSE MaxInt
    IN IF AllDigits(body) /\ NumLeq(Canon(body), limit)
       THEN [ok |-> TRUE,
             v |-> IF neg /\ Canon(body) # Zero THEN <<"-">> \o Canon(body) ELSE Canon(body)]
       ELSE [ok |-> FALSE, v |-> Zero]

\* strconv.Itoa of a number kept as its numeral
ItoaNum(v) == v

(***************************************************************************)
(* Range sets (parseRangeSet)                                              *)
(***************************************************************************)
NilSlice == [isnil |-> TRUE, elems |-> <<>>]

Slice(elems) == [isnil |-> FALSE, elems |-> elems]

RangeOf(start, end, infinite) == [Start |-> start, End |-> end, Infinite |-> infinite]

\* one token of a range set: the Range, or failure
parseRange(s) ==
    With(Split(s, ":"), LAMBDA p :
    LET start == ParseUint32(p[1])
        end == ParseUint32(p[2])
    IN IF Len(s) = 0 \/ Len(p) > 2 \/ ~start.ok THEN [ok |-> FALSE, r |-> RangeOf(Zero, Zero, FALSE)]
       ELSE IF Len(p) = 1 THEN [ok |-> TRUE, r |-> RangeOf(start.v, Zero, FALSE)]
       ELSE IF p[2] = <<"*">> THEN [ok |-> TRUE, r |-> RangeOf(start.v, Zero, TRUE)]
       ELSE IF ~end.ok THEN [ok |-> FALSE, r |-> RangeOf(Zero, Zero, FALSE)]
       ELSE [ok |-> TRUE, r |-> RangeOf(start.v, end.v, FALSE)])

\* faulty variant of parseRanges: a token that is no range is left out
RECURSIVE parseRangesSkipping(_, _)
parseRangesSkipping(toks, set) ==
    IF toks = <<>> THEN Slice(set)
    ELSE IF ~parseRange(Head(toks)).ok THEN parseRangesSkipping(Tail(toks), set)
    ELSE parseRangesSkipping(Tail(toks), Append(set, parseRange(Head(toks)).r))

RECURSIVE parseRanges(_, _)
parseRanges(toks, set) ==
    IF toks = <<>> THEN Slice(set)
    ELSE IF ~parseRange(Head(toks)).ok THEN NilSlice
    ELSE parseRanges(Tail(toks), Append(set, parseRange(Head(toks)).r))

parseRangeSet(rs) == With(Split(rs, ","), LAMBDA toks : parseRanges(toks, <<>>))

(***************************************************************************)
(* Message data item names (reDataItemName, parseMessageDataItemNames)     *)
(***************************************************************************)
validDataItemNames ==
    { <<"B","O","D","Y">>,
      <<"B","O","D","Y","[","]">>,
      <<"B","O","D","Y",".","P","E","E","K","[","]">>,
      <<"B","O","D","Y","S","T","R","U","C","T","U","R","E">>,
      <<"E","N","V","E","L","O","P","E">>,
      <<"F","L","A","G","S">>,
      <<"I","N","T","E","R","N","A","L","D","A","T","E">>,
      <<"R","F","C","8","2","2">>,
      <<"R","F","C","8","2","2",".","H","E","A","D","E","R">>,
      <<"R","F","C","8","2","2",".","S","I","Z","E">>,
      <<"R","F","C","8","2","2",".","T","E","X","T">>,
      <<"U","I","D">> }

ItemName(name) == [Name |-> name, Section |-> <<>>, FieldNames |-> <<>>, Partial |-> <<>>]

nFLAGS == ItemName(<<"F","L","A","G","S">>)
nINTERNALDATE == ItemName(<<"I","N","T","E","R","N","A","L","D","A","T","E">>)
nRFC822SIZE == ItemName(<<"R","F","C","8","2","2",".","S","I","Z","E">>)
nENVELOPE == ItemName(<<"E","N","V","E","L","O","P","E">>)
nBODY == ItemName(<<"B","O","D","Y">>)

\* macroMessageDataItemNames[names]; nil when names is no key of the map
macroMessageDataItemNames(names) ==
    IF names = <<"F","A","S","T">> THEN Slice(<<nFLAGS, nINTERNALDATE, nRFC822SIZE>>)
    ELSE IF names = <<"A","L","L">> THEN Slice(<<nFLAGS, nINTERNALDATE, nRFC822SIZE, nENVELOPE>>)
    ELSE IF names = <<"F","U","L","L">>
         THEN Slice(<<nFLAGS, nINTERNALDATE, nRFC822SIZE, nENVELOPE, nBODY>>)
    ELSE NilSlice

\* [a-z0-9\.] under (?i)
IsAtomCh(ch) == IsLetter(ch) \/ IsDigit(ch) \/ ch = "."

\* [a-z\-\s] under (?i)
IsFieldCh(ch) == IsLetter(ch) \/ ch = "-" \/ IsSpace(ch)

\* the position after the longest run of P characters that starts at i
RunEnd(str, i, P(_)) ==
    CHOOSE j \in i..(Len(str) + 1) :
        /\ \A k \in i..(j - 1) : P(str[k])
        /\ j = Len(str) + 1 \/ ~P(str[j])

At(str, i, ch) == i <= Len(str) /\ str[i] = ch

\* (\s|$) at position i
TailOk(str, i) == i = Len(str) + 1 \/ (i <= Len(str) /\ IsSpace(str[i]))

TailEnd(str, i) == IF i <= Len(str) THEN i + 1 ELSE i

NoMatch == [ok |-> FALSE, end |-> 0, s0 |-> <<>>, s2 |-> <<>>, s3 |-> <<>>,
            s4 |-> <<>>, s5 |-> <<>>]

\* body(\.peek)?\[ at position i: the position of the "[", or 0
bodyOpen(str, i) ==
    IF i + 3 <= Len(str) /\ ToLower(SubSeq(str, i, i + 3)) = <<"b","o","d","y">>
    THEN IF /\ i + 8 <= Len(str)
            /\ ToLower(SubSeq(str, i + 4, i + 8)) = <<".","p","e","e","k">>
            /\ At(str, i + 9, "[")
         THEN i + 9
         ELSE IF At(str, i + 4, "[") THEN i + 4 ELSE 0
    ELSE 0

\* (\s\([a-z\-\s]*\))? at position secEnd: the position after it
fieldsEnd(str, secEnd) ==
    IF secEnd + 1 <= Len(str) /\ IsSpace(str[secEnd]) /\ str[secEnd + 1] = "("
    THEN With(RunEnd(str, secEnd + 2, IsFieldCh), LAMBDA fldEnd :
            IF At(str, fldEnd, ")") THEN fldEnd + 1 ELSE secEnd)
    ELSE secEnd

\* (<\d+.\d+>)? at position lt, with (\s|$) after it: the position after it
partialEnd(str, lt) ==
    IF ~At(str, lt, "<") THEN lt
    ELSE With(RunEnd(str, lt + 1, IsDigit), LAMBDA d1 :
         With(RunEnd(str, d1 + 1, IsDigit), LAMBDA d2 :
            \* the dot takes a character after the first digits
            IF /\ d1 > lt + 1 /\ d1 <= Len(str) /\ str[d1] # "\n"
               /\ d2 > d1 + 1 /\ At(str, d2, ">")
               /\ TailOk(str, d2 + 1)
            THEN d2 + 1
            \* the dot takes one of three or more digits
            ELSE IF d1 >= lt + 4 /\ At(str, d1, ">") /\ TailOk(str, d1 + 1) THEN d1 + 1
            ELSE lt))

\* the first alternative at position i: body(\.peek)?\[...(\s\(...\))?\](<\d+.\d+>)?
matchBody(str, i) ==
    With(bodyOpen(str, i), LAMBDA open :
        IF open = 0 THEN NoMatch
        ELSE With(RunEnd(str, open + 1, IsAtomCh), LAMBDA secEnd :
             With(fieldsEnd(str, secEnd), LAMBDA close :
                IF ~At(str, close, "]") THEN NoMatch
                ELSE With(partialEnd(str, close + 1), LAMBDA partEnd :
                        IF ~TailOk(str, partEnd) THEN NoMatch
                        ELSE [ok |-> TRUE, end |-> TailEnd(str, partEnd),
                              s0 |-> SubSeq(str, i, TailEnd(str, partEnd) - 1),
                              s2 |-> SubSeq(str, i, open - 1),
                              s3 |-> SubSeq(str, open + 1, secEnd - 1),
                              s4 |-> SubSeq(str, secEnd, close - 1),
                              s5 |-> SubSeq(str, close + 1, partEnd - 1)]))))

\* the second alternative at position i: [a-z0-9\.]+
matchAtom(str, i) ==
    With(RunEnd(str, i, IsAtomCh), LAMBDA e :
        IF e > i /\ TailOk(str, e)
        THEN [ok |-> TRUE, end |-> TailEnd(str, e),
              s0 |-> SubSeq(str, i, TailEnd(str, e) - 1),
              s2 |-> <<>>, s3 |-> <<>>, s4 |-> <<>>, s5 |-> <<>>]
        ELSE NoMatch)

matchAt(str, i) ==
    With(matchBody(str, i), LAMBDA m : IF m.ok THEN m ELSE matchAtom(str, i))

\* reDataItemName.FindAllStringSubmatch(str, -1), from position i on
RECURSIVE FindAllStringSubmatch(_, _)
FindAllStringSubmatch(str, i) ==
    With(i, LAMBDA from :
        IF from > Len(str) THEN <<>>
        ELSE With(matchAt(str, from), LAMBDA m :
                IF m.ok THEN <<m>> \o FindAllStringSubmatch(str, m.end)
                ELSE FindAllStringSubmatch(str, from + 1)))

\* strings.TrimSpace
RECURSIVE TrimSpace(_)
TrimSpace(str) ==
    IF str # <<>> /\ IsSpace(str[1]) THEN TrimSpace(Tail(str))
    ELSE IF str # <<>> /\ IsSpace(str[Len(str)]) THEN TrimSpace(SubSeq(str, 1, Len(str) - 1))
    ELSE str

NoErr == [kind |-> Nil, text |-> <<>>]

ErrInvalidDataItem(text) == [kind |-> "ErrInvalidDataItem", text |-> text]

NumError(text) == [kind |-> "strconv.NumError", text |-> text]

Parsed(items, err) == [panic |-> FALSE, items |-> items, err |-> err]

ParsePanic == [panic |-> TRUE, items |-> NilSlice, err |-> NoErr]

\* faulty variant of bodyItem: the field list is kept as one name
bodyItemUnsplit(s) ==
    With(Split(SubSeq(s.s5, 2, Len(s.s5) - 1), "."), LAMBDA p :
    LET fieldNames == IF s.s4 # <<>> THEN <<SubSeq(s.s4, 3, Len(s.s4) - 1)>>
                      ELSE <<>>
        item(partial) == [Name |-> ToUpper(s.s2) \o <<"[","]">>, Section |-> ToUpper(s.s3),
                          FieldNames |-> fieldNames, Partial |-> partial]
    IN IF s.s5 = <<>> THEN [panic |-> FALSE, err |-> NoErr, item |-> item(<<>>)]
       ELSE IF ~Atoi(p[1]).ok
            THEN [panic |-> FALSE, err |-> NumError(p[1]), item |-> item(<<>>)]
       ELSE IF Len(p) < 2 THEN [panic |-> TRUE, err |-> NoErr, item |-> item(<<>>)]
       ELSE IF ~Atoi(p[2]).ok
            THEN [panic |-> FALSE, err |-> NumError(p[2]), item |-> item(<<>>)]
       ELSE [panic |-> FALSE, err |-> NoErr, item |-> item(<<Atoi(p[1]).v, Atoi(p[2]).v>>)])

\* the item of one match of the first alternative; panics when the partial
\* holds no "."
bodyItem(s) ==
    With(Split(SubSeq(s.s5, 2, Len(s.s5) - 1), "."), LAMBDA p :
    LET fieldNames == IF s.s4 # <<>> THEN Split(SubSeq(s.s4, 3, Len(s.s4) - 1), " ")
                      ELSE <<>>
        item(partial) == [Name |-> ToUpper(s.s2) \o <<"[","]">>, Section |-> ToUpper(s.s3),
                          FieldNames |-> fieldNames, Partial |-> partial]
    IN IF s.s5 = <<>> THEN [panic |-> FALSE, err |-> NoErr, item |-> item(<<>>)]
       ELSE IF ~Atoi(p[1]).ok
            THEN [panic |-> FALSE, err |-> NumError(p[1]), item |-> item(<<>>)]
       ELSE IF Len(p) < 2 THEN [panic |-> TRUE, err |-> NoErr, item |-> item(<<>>)]
       ELSE IF ~Atoi(p[2]).ok
            THEN [panic |-> FALSE, err |-> NumError(p[2]), item |-> item(<<>>)]
       ELSE [panic |-> FALSE, err |-> NoErr, item |-> item(<<Atoi(p[1]).v, Atoi(p[2]).v>>)])

\* the loop of parseMessageDataItemNames over the matches
RECURSIVE parseItems(_, _)
parseItems(ms, items) ==
    IF ms = <<>> THEN Parsed(Slice(items), NoErr)
    ELSE With(Head(ms), LAMBDA s :
         With(IF s.s2 # <<>> THEN bodyItem(s)
              ELSE [panic |-> FALSE, err |-> NoErr,
                    item |-> ItemName(ToUpper(TrimSpace(s.s0)))], LAMBDA b :
            IF b.panic THEN ParsePanic
            ELSE IF b.err # NoErr THEN Parsed(NilSlice, b.err)
            ELSE IF b.item.Name \notin validDataItemNames
                 THEN Parsed(Slice(items), ErrInvalidDataItem(s.s0))
            ELSE With(Append(items, b.item), LAMBDA found :
                    parseItems(Tail(ms), found))))

\* the matches of reDataItemName in str, parsed in order
parseMatches(str) ==
    With(str, LAMBDA s :
        With(FindAllStringSubmatch(s, 1), LAMBDA ms : parseItems(ms, <<>>)))

parseMessageDataItemNames(names) ==
    IF names = <<>> THEN ParsePanic
    ELSE IF names[1] # "(" /\ ~macroMessageDataItemNames(names).isnil
         THEN Parsed(macroMessageDataItemNames(names), NoErr)
    ELSE IF names[1] # "(" THEN parseMatches(names)
    ELSE IF Len(names) < 2 THEN ParsePanic
    ELSE parseMatches(SubSeq(names, 2, Len(names) - 1))

\* MessageDataItemName.String
String(d) ==
    IF d.Section = <<>> THEN d.Name
    ELSE SubSeq(d.Name, 1, Len(d.Name) - 2) \o <<"[">> \o d.Section
            \o (IF d.FieldNames # <<>>
                THEN <<" ", "(">> \o JoinSp(d.FieldNames) \o <<")">> ELSE <<>>)
            \o <<"]">>
            \o (IF Len(d.Partial) = 2
                THEN <<"<">> \o ItoaNum(d.Partial[1]) \o <<".">> \o ItoaNum(d.Partial[2]) \o <<">">>
                ELSE <<>>)

(***************************************************************************)
(* The client's lines.  A line is given as strings.Split(TrimSpace(l)," ") *)
(* leaves it: one or more tokens, none holding a space; two adjacent       *)
(* spaces in the line leave an empty token.                                *)
(***************************************************************************)
tagA == <<"a","1">>

tagB == <<"b","2">>

kNOOP == <<"N","O","O","P">>
kCAPABILITY == <<"C","A","P","A","B","I","L","I","T","Y">>
kSTARTTLS == <<"S","T","A","R","T","T","L","S">>
kLOGIN == <<"L","O","G","I","N">>
kCLOSE == <<"C","L","O","S","E">>
kLOGOUT == <<"L","O","G","O","U","T">>
kSTATUS == <<"S","T","A","T","U","S">>
kSELECT == <<"S","E","L","E","C","T">>
kLIST == <<"L","I","S","T">>
kUID == <<"U","I","D">>
kFETCH == <<"F","E","T","C","H">>
kSTORE == <<"S","T","O","R","E">>
kEXPUNGE == <<"E","X","P","U","N","G","E">>

tInbox == <<"i","n","b","o","x">>
tUser == <<"j","o","e">>
tPass == <<"p","w">>
tEmpty == <<>>
tStar == <<"*">>
tX == <<"x">>
tMessages == <<"(","M","E","S","S","A","G","E","S",")">>
tMessagesFirst == <<"(","M","E","S","S","A","G","E","S">>
tRecentLast == <<"r","e","c","e","n","t",")">>
tOne == <<"1">>
tRange == <<"1",",","2",":","4",",","5",":","*">>
tBadRange == <<"a","b","c">>
tItemUid == <<"(","U","I","D",")">>
tItemFast == <<"F","A","S","T">>
tItemBogus == <<"(","U","I","D">>
tItemBogus2 == <<"I","N","V","A","L","I","D",")">>
tItemStray == <<"@","@",")">>

\* command and arguments of the lines the client may send
Commands ==
    { <<kNOOP>>,
      <<kCAPABILITY>>,
      <<kSTARTTLS>>,
      <<kLOGIN, tUser, tPass>>, <<ToLower(kLOGIN)>>,
      <<kCLOSE>>,
      <<kLOGOUT>>,
      <<kSTATUS>>, <<kSTATUS, tInbox>>, <<kSTATUS, tInbox, tMessages>>,
      <<kSTATUS, tInbox, tX>>, <<kSTATUS, tInbox, tMessagesFirst, tRecentLast>>,
      <<kSELECT>>, <<kSELECT, tInbox>>,
      <<kLIST>>, <<kLIST, tX>>, <<kLIST, tX, tStar>>, <<kLIST, tX, tEmpty, tStar>>,
      <<kUID>>, <<kUID, kFETCH>>, <<kUID, kFETCH, tOne>>,
      <<kUID, kFETCH, tOne, tItemUid>>, <<kUID, ToLower(kFETCH), tRange, tItemFast>>,
      <<kUID, kFETCH, tBadRange, tItemUid>>,
      <<kUID, kFETCH, tOne, tItemBogus, tItemBogus2>>,
      <<kUID, kFETCH, tBadRange>>, <<kUID, kFETCH, tOne, tItemBogus, tItemStray>>,
      <<kUID, kSTORE, tOne>>,
      <<kEXPUNGE>> }

\* the commands also sent under the second tag
RetaggedCommands ==
    {<<ToLower(kNOOP)>>, <<ToLower(kSTARTTLS)>>, <<kLOGOUT>>}

Lines == {<<tEmpty>>, <<tagA>>}
            \cup {<<tagA>> \o c : c \in Commands}
            \cup {<<tagB>> \o c : c \in RetaggedCommands}

(***************************************************************************)
(* Collaborators (interface.go): what Backend and Mailbox may answer.      *)
(***************************************************************************)
Mailboxes == {"mbA", "mbB"}

ErrUnknownMailbox == "imapd: no such mailbox"

ErrOther == "backend failure"

\* Backend.Mailbox(name): a mailbox, or no mailbox and an error
MailboxResults ==
    {[mb |-> m, err |-> Nil] : m \in Mailboxes}
        \cup {[mb |-> Nil, err |-> e] : e \in {ErrUnknownMailbox, ErrOther}}

\* MailboxInfo; Unseen is the field case "status" reads
MailboxInfo(nextUid, uidValidity, exists, recent, unseen) ==
    [NextUid |-> nextUid, UidValidity |-> uidValidity,
     Exists |-> exists, Recent |-> recent, Unseen |-> unseen]

\* Mailbox.Info(): a snapshot, or an error
InfoResults ==
    { [info |-> MailboxInfo(12, 9, 10, 1, 4), err |-> Nil],
      [info |-> MailboxInfo(0, 0, 0, 0, 0), err |-> ErrOther] }

\* the values a MessageDataItem may carry (Data interface{})
Value(kind, n, s, l) == [kind |-> kind, n |-> n, s |-> s, l |-> l]

VNil == Value("nil", 0, <<>>, <<>>)

VInt(n) == Value("int", n, <<>>, <<>>)

VString(s) == Value("string", 0, s, <<>>)

VStrings(l) == Value("[]string", 0, <<>>, l)

\* a time.Time, kept as its text in internalDateFormat
VTime(s) == Value("time.Time", 0, s, <<>>)

VBytes(s) == Value("[]byte", 0, s, <<>>)

\* any other dynamic type, such as int64 or bool
VOther == Value("other", 0, <<>>, <<>>)

MessageDataItem(item, data) == [Item |-> item, Data |-> data]

iUID == ItemName(<<"U","I","D">>)

iBODY == [Name |-> <<"B","O","D","Y","[","]">>, Section |-> <<"T","E","X","T">>,
          FieldNames |-> <<>>, Partial |-> <<>>]

\* Mailbox.FetchMessagesByUID: the messages in the order the map is ranged
\* over, or an error
FetchResults ==
    { [err |-> ErrOther, msgs |-> <<>>],
      [err |-> Nil, msgs |-> <<>>],
      [err |-> Nil, msgs |-> <<[seqNum |-> 1,
                                data |-> <<MessageDataItem(iUID, VInt(7)),
                                           MessageDataItem(iBODY, VBytes(<<"h","i">>))>>]>>],
      [err |-> Nil, msgs |-> <<[seqNum |-> 2,
                                data |-> <<MessageDataItem(nFLAGS, VStrings(<<<<"\\Seen">>>>)),
                                           MessageDataItem(iUID, VOther)>>],
                               [seqNum |-> 1, data |-> <<>>]>>] }

NoResult == [err |-> "not called"]

(***************************************************************************)
(* Server and session.                                                     *)
(***************************************************************************)
ConnIds == {"c1", "c2"}

\* the connections Serve accepts in Spec
Conns == {"c1"}

\* Server: TlsConfig set or nil, InsecureLogin; secure is Serve's argument
Servers == [TlsConfig : BOOLEAN, InsecureLogin : BOOLEAN, secure : BOOLEAN]

bufioNewReader(conn) == [conn |-> conn, buffered |-> 0]

bufioNewWriter(conn) == [conn |-> conn, err |-> FALSE, pending |-> <<>>]

\* Server.newSession: reader and writer bound to the accepted connection
newSession(rwc) ==
    [pc |-> "new", rwc |-> rwc,
     br |-> bufioNewReader(rwc),
     bw |-> bufioNewWriter(rwc),
     secure |-> FALSE, authenticated |-> FALSE, mailbox |-> Nil]

\* tls.Server(rwc, config): the TLS stream over the accepted connection
tlsServer(rwc) == "tls(" \o rwc \o ")"

\* the record of a step: the session, the operation, the reader ReadSlice used
\* and the lines its transport Read delivered, the line, the writes attempted,
\* whether one failed, how serve went on, the handshake, the collaborators'
\* answers
NoStep == [c |-> Nil, op |-> "init", rd |-> Nil, burst |-> 0, parts |-> <<>>,
           att |-> <<>>, werr |-> FALSE, ret |-> "loop", hs |-> "none",
           mb |-> NoResult, info |-> NoResult, fetch |-> NoResult]

\* call holds a call of one of the parsers on its own; the server makes none
NoCall == [fn |-> Nil, toks |-> <<>>, paren |-> FALSE, arg |-> <<>>, done |-> FALSE, res |-> Nil]

Init ==
    /\ srv \in Servers
    /\ listening = TRUE
    /\ crashed = FALSE
    /\ sess = [c \in ConnIds |-> newSession(c)]
    /\ last = NoStep
    /\ resp = <<>>
    /\ call = NoCall

(***************************************************************************)
(* The transport.                                                          *)
(***************************************************************************)
\* how many of a handler's writes succeed: a bufio.Writer keeps its first
\* error, so none succeeds after one
WriteOutcomes(bw, out) ==
    IF bw.err THEN {0}
    ELSE {k \in 0..Len(out) : k <= MaxGoodWrites \/ k = Len(out)}

\* the writer and the chunks that reached the transport after the writes ops
RECURSIVE bufioWrite(_, _, _)
bufioWrite(bw, ops, sent) ==
    IF ops = <<>> THEN [bw |-> bw, sent |-> sent]
    ELSE IF Head(ops).flush
         THEN bufioWrite([bw EXCEPT !.pending = <<>>], Tail(ops),
                         sent \o bw.pending \o <<Head(ops).text>>)
    ELSE bufioWrite([bw EXCEPT !.pending = Append(@, Head(ops).text)], Tail(ops), sent)

\* the first k writes of out succeed, and the next one, if any, fails
Written(bw, out, k) ==
    LET w == bufioWrite(bw, SubSeq(out, 1, k), <<>>)
    IN [bw |-> [w.bw EXCEPT !.err = @ \/ k < Len(out)], sent |-> w.sent]

\* bufio.Reader.ReadSlice: a buffered line is returned without reading the
\* transport; otherwise one Read delivers burst >= 1 lines
Bursts(br) == IF br.buffered > 0 THEN {0} ELSE 1..MaxBurst

ReadSlice(br, burst) ==
    IF br.buffered > 0 THEN [br EXCEPT !.buffered = @ - 1]
    ELSE [br EXCEPT !.buffered = burst - 1]

\* what a handler did: the session it leaves, its writes in order, how serve
\* goes on ("loop", "return" or "panic"), and the TLS handshake it made
Result(s, out, ret) == [s |-> s, out |-> out, ret |-> ret, hs |-> "none"]

\* one step of session c: r is what the handler did, k the number of its
\* writes that succeeded; a return runs the deferred Close, a panic ends the
\* process
Commit(c, op, burst, parts, r, k, mb, info, fetch) ==
    /\ sess' = [sess EXCEPT ![c] =
                  [(IF r.hs = "ok" THEN r.s
                    ELSE [r.s EXCEPT !.bw = Written(sess[c].bw, r.out, k).bw])
                   EXCEPT !.pc = IF r.ret = "loop" THEN "loop" ELSE "closed"]]
    /\ resp' = Written(sess[c].bw, r.out, k).sent
    /\ last' = [c |-> c, op |-> op,
                rd |-> IF op = "greet" THEN Nil ELSE sess[c].br.conn, burst |-> burst,
                parts |-> parts, att |-> r.out, werr |-> k < Len(r.out), ret |-> r.ret,
                hs |-> r.hs, mb |-> mb, info |-> info, fetch |-> fetch]
    /\ crashed' = (r.ret = "panic")
    /\ UNCHANGED <<srv, listening, call>>

Step(c, parts, burst, r, mb, info, fetch) ==
    \E done \in {r} :
        \E k \in WriteOutcomes(sess[c].bw, done.out) :
            Commit(c, "command", burst, parts, done, k, mb, info, fetch)

(***************************************************************************)
(* Server.Serve: the accept loop.                                          *)
(***************************************************************************)
Accept(c) ==
    /\ ~crashed /\ listening
    /\ sess[c].pc = "new"
    /\ sess' = [sess EXCEPT ![c] = [newSession(c) EXCEPT !.secure = srv.secure,
                                                          !.pc = "serve"]]
    /\ last' = [NoStep EXCEPT !.c = c, !.op = "accept"]
    /\ resp' = <<>>
    /\ UNCHANGED <<srv, listening, crashed, call>>

\* Accept fails for good: Serve returns and its deferred ln.Close() runs
ServeReturn ==
    /\ ~crashed /\ listening
    /\ listening' = FALSE
    /\ last' = [NoStep EXCEPT !.op = "serveReturn"]
    /\ resp' = <<>>
    /\ UNCHANGED <<srv, crashed, sess, call>>

(***************************************************************************)
(* session.serve                                                           *)
(***************************************************************************)
Greeting ==
    sendlinef(<<"* ", "OK ", "[CAPABILITY IMAP4rev1 AUTH=LOGIN] hostname.com IMAP4rev1 2004.350 at Sun, 8 Aug 2004 13:51:21 -0500 (CDT)">>, <<>>)

Greet(c) ==
    /\ ~crashed
    /\ sess[c].pc = "serve"
    /\ \E k \in WriteOutcomes(sess[c].bw, <<Greeting>>) :
          Commit(c, "greet", 0, <<>>, Result(sess[c], <<Greeting>>, "loop"), k,
                 NoResult, NoResult, NoResult)

\* ReadSlice fails (EOF, deadline, line longer than the buffer): serve returns
ReadError(c) ==
    /\ ~crashed
    /\ sess[c].pc = "loop"
    /\ sess[c].br.buffered = 0
    /\ Commit(c, "readError", 0, <<>>, Result(sess[c], <<>>, "return"), 0,
              NoResult, NoResult, NoResult)

\* session c reads the line parts
Reads(c, parts) ==
    /\ ~crashed
    /\ sess[c].pc = "loop"

AfterRead(c, burst) == [sess[c] EXCEPT !.br = ReadSlice(@, burst)]

\* len(parts) < 2: serve returns
TooShort(c) ==
    \E parts \in Lines, burst \in Bursts(sess[c].br) :
        /\ Reads(c, parts)
        /\ Len(parts) < 2
        /\ Commit(c, "tooShort", burst, parts, Result(AfterRead(c, burst), <<>>, "return"), 0,
                  NoResult, NoResult, NoResult)

\* the case labels of the command switch
caseNoop == ToLower(kNOOP)

caseCapability == ToLower(kCAPABILITY)

caseStarttls == ToLower(kSTARTTLS)

caseLogin == ToLower(kLOGIN)

caseClose == ToLower(kCLOSE)

caseLogout == ToLower(kLOGOUT)

caseStatus == ToLower(kSTATUS)

caseSelect == ToLower(kSELECT)

caseList == ToLower(kLIST)

caseUid == ToLower(kUID)

caseFetch == ToLower(kFETCH)

\* strings.ToLower(parts[1]) of every line of two or more tokens
lowerCommand == [parts \in {l \in Lines : Len(l) >= 2} |-> ToLower(parts[2])]

cmdOf(parts) == lowerCommand[parts]

tagOf(parts) == parts[1]

argsOf(parts) == SubSeq(parts, 3, Len(parts))

\* the line parts is read and the switch takes the case of cmd
Dispatch(c, parts, cmd) ==
    /\ Reads(c, parts)
    /\ Len(parts) >= 2
    /\ cmdOf(parts) = cmd

tagged(status, text) == <<"%s", " ", status, text>>

OK == "OK "

NO == "NO "

BAD == "BAD "

\* case "noop"
serveNoop(s, tag, args) ==
    Result(s, <<sendlinef(tagged(OK, "NOOP completed"), <<tag>>)>>, "loop")

Noop(c) ==
    \E parts \in Lines :
        /\ Dispatch(c, parts, caseNoop)
        /\ \E burst \in Bursts(sess[c].br) :
           Step(c, parts, burst, serveNoop(AfterRead(c, burst), tagOf(parts), argsOf(parts)),
                NoResult, NoResult, NoResult)

\* faulty variant of loginAllowed: login is allowed on any connection
loginAlways(s) == TRUE

\* the condition of case "login" and of the capability list
loginAllowed(s) == s.secure \/ srv.InsecureLogin

\* faulty variant of capabilities: STARTTLS is left out once the session is
\* secure
capabilitiesHidingTLS(s) ==
    <<<<"IMAP4rev1">>>>
        \o (IF srv.TlsConfig /\ ~s.secure THEN <<<<"STARTTLS">>>> ELSE <<>>)
        \o (IF loginAllowed(s) THEN <<<<"AUTH=login">>>> ELSE <<<<"LOGINDISABLED">>>>)

capabilities(s) ==
    <<<<"IMAP4rev1">>>>
        \o (IF srv.TlsConfig THEN <<<<"STARTTLS">>>> ELSE <<>>)
        \o (IF loginAllowed(s) THEN <<<<"AUTH=login">>>> ELSE <<<<"LOGINDISABLED">>>>)

\* case "capability"
serveCapability(s, tag, args) ==
    Result(s, <<sendlinef(<<"* ", "CAPABILITY ">> \o JoinSp(capabilities(s)), <<>>),
                sendlinef(tagged(OK, "CAPABILITY completed"), <<tag>>)>>, "loop")

Capability(c) ==
    \E parts \in Lines :
        /\ Dispatch(c, parts, caseCapability)
        /\ \E burst \in Bursts(sess[c].br) :
           Step(c, parts, burst, serveCapability(AfterRead(c, burst), tagOf(parts), argsOf(parts)),
                NoResult, NoResult, NoResult)

\* faulty variant of upgraded: the plaintext reader is kept
upgradedKeepingReader(s) ==
    [s EXCEPT !.rwc = tlsServer(s.rwc),
              !.bw = bufioNewWriter(tlsServer(s.rwc)),
              !.secure = TRUE]

\* the session after a successful handshake: transport, reader and writer
\* replaced, secure set
upgraded(s) ==
    [s EXCEPT !.rwc = tlsServer(s.rwc),
              !.br = bufioNewReader(tlsServer(s.rwc)),
              !.bw = bufioNewWriter(tlsServer(s.rwc)),
              !.secure = TRUE]

\* faulty variant of serveStartTLS: a secure session is upgraded again
serveStartTLSAgain(s, tag, handshake) ==
    IF ~srv.TlsConfig
    THEN Result(s, <<sendlinef(tagged(NO, "TLS not configured"), <<tag>>)>>, "loop")
    ELSE [s |-> IF handshake THEN upgraded(s) ELSE s,
          out |-> <<sendlinef(tagged(OK, "Begin TLS negotiation now"), <<>>), bwFlush>>,
          ret |-> IF handshake THEN "loop" ELSE "return",
          hs |-> IF handshake THEN "ok" ELSE "failed"]

\* faulty variant of serveStartTLS: the session is marked secure before the
\* handshake, and stays so when the handshake fails
serveStartTLSEarly(s, tag, handshake) ==
    IF s.secure
    THEN Result(s, <<sendlinef(tagged(NO, "connection already secure"), <<tag>>)>>, "loop")
    ELSE IF ~srv.TlsConfig
         THEN Result(s, <<sendlinef(tagged(NO, "TLS not configured"), <<tag>>)>>, "loop")
    ELSE [s |-> IF handshake THEN upgraded(s) ELSE [s EXCEPT !.secure = TRUE],
          out |-> <<sendlinef(tagged(OK, "Begin TLS negotiation now"), <<>>), bwFlush>>,
          ret |-> IF handshake THEN "loop" ELSE "return",
          hs |-> IF handshake THEN "ok" ELSE "failed"]

\* case "starttls"; handshake is whether c.Handshake() succeeds
serveStartTLS(s, tag, handshake) ==
    IF s.secure
    THEN Result(s, <<sendlinef(tagged(NO, "connection already secure"), <<tag>>)>>, "loop")
    ELSE IF ~srv.TlsConfig
         THEN Result(s, <<sendlinef(tagged(NO, "TLS not configured"), <<tag>>)>>, "loop")
    ELSE [s |-> IF handshake THEN upgraded(s) ELSE s,
          out |-> <<sendlinef(tagged(OK, "Begin TLS negotiation now"), <<>>), bwFlush>>,
          ret |-> IF handshake THEN "loop" ELSE "return",
          hs |-> IF handshake THEN "ok" ELSE "failed"]

StartTLS(c) ==
    \E parts \in Lines :
        /\ Dispatch(c, parts, caseStarttls)
        /\ \E burst \in Bursts(sess[c].br), handshake \in BOOLEAN :
           Step(c, parts, burst, serveStartTLS(AfterRead(c, burst), tagOf(parts), handshake),
                NoResult, NoResult, NoResult)

\* case "login"
serveLogin(s, tag, args) ==
    IF loginAllowed(s)
    THEN Result([s EXCEPT !.authenticated = TRUE],
                <<sendlinef(tagged(OK, "User logged in"), <<tag>>)>>, "loop")
    ELSE Result(s, <<sendlinef(tagged(NO, "Login only supported over a secure connection"),
                               <<tag>>)>>, "loop")

Login(c) ==
    \E parts \in Lines :
        /\ Dispatch(c, parts, caseLogin)
        /\ \E burst \in Bursts(sess[c].br) :
           Step(c, parts, burst, serveLogin(AfterRead(c, burst), tagOf(parts), argsOf(parts)),
                NoResult, NoResult, NoResult)

\* case "close"
serveClose(s, tag, args) ==
    Result(s, <<sendlinef(tagged(OK, "Returned to authenticated state. (Success)"),
                          <<tag>>)>>, "loop")

Close(c) ==
    \E parts \in Lines :
        /\ Dispatch(c, parts, caseClose)
        /\ \E burst \in Bursts(sess[c].br) :
           Step(c, parts, burst, serveClose(AfterRead(c, burst), tagOf(parts), argsOf(parts)),
                NoResult, NoResult, NoResult)

\* how serve goes on after the logout case
afterLogout == "loop"

\* case "logout"
serveLogout(s, tag, args) ==
    Result(s, <<sendlinef(<<"* ", "BYE ", "LOGOUT Requested">>, <<>>),
                sendlinef(<<"%s", " ", OK, "%d", " good day (Success)">>, <<tag, Itoa(0)>>)>>,
           afterLogout)

Logout(c) ==
    \E parts \in Lines :
        /\ Dispatch(c, parts, caseLogout)
        /\ \E burst \in Bursts(sess[c].br) :
           Step(c, parts, burst, serveLogout(AfterRead(c, burst), tagOf(parts), argsOf(parts)),
                NoResult, NoResult, NoResult)

\* the NO answer to a failed Backend.Mailbox
mailboxError(tag, err) ==
    IF err = ErrUnknownMailbox THEN sendlinef(tagged(NO, "unknown mailbox"), <<tag>>)
    ELSE sendlinef(tagged(NO, "internal error"), <<tag>>)

\* one item of a STATUS list: the separator, and the item when it is known
statusItem(i, it, info) ==
    (IF i # 1 THEN <<sendf(<<" ">>, <<>>)>> ELSE <<>>)
        \o (IF ToUpper(it) = <<"M","E","S","S","A","G","E","S">>
            THEN <<sendf(<<"MESSAGES ", "%d">>, <<Itoa(info.Exists)>>)>>
            ELSE IF ToUpper(it) = <<"R","E","C","E","N","T">>
            THEN <<sendf(<<"RECENT ", "%d">>, <<Itoa(info.Recent)>>)>>
            ELSE IF ToUpper(it) = <<"U","I","D","N","E","X","T">>
            THEN <<sendf(<<"UIDNEXT ", "%d">>, <<Itoa(info.NextUid)>>)>>
            ELSE IF ToUpper(it) = <<"U","I","D","V","A","L","I","D","I","T","Y">>
            THEN <<sendf(<<"UIDVALIDITY ", "%d">>, <<Itoa(info.UidValidity)>>)>>
            ELSE IF ToUpper(it) = <<"U","N","S","E","E","N">>
            THEN <<sendf(<<"UNSEEN ", "%d">>, <<Itoa(info.Unseen)>>)>>
            ELSE <<>>)

RECURSIVE statusItems(_, _, _)
statusItems(i, items, info) ==
    IF i > Len(items) THEN <<>>
    ELSE statusItem(i, items[i], info) \o statusItems(i + 1, items, info)

\* case "status"
serveStatus(s, tag, args, mb, info) ==
    IF Len(args) < 2
    THEN Result(s, <<sendlinef(tagged(BAD, "Missing mailbox and item names"), <<tag>>)>>,
                "loop")
    ELSE IF mb.err # Nil THEN Result(s, <<mailboxError(tag, mb.err)>>, "loop")
    ELSE IF info.err # Nil
         THEN Result(s, <<sendlinef(tagged(NO, "internal error"), <<tag>>)>>, "loop")
    ELSE IF Len(args[2]) < 2
         THEN Result(s, <<sendf(<<"* ", "STATUS ", "%s", " (">>, <<args[1]>>)>>, "panic")
    ELSE Result(s, <<sendf(<<"* ", "STATUS ", "%s", " (">>, <<args[1]>>)>>
                      \o statusItems(1, Split(SubSeq(args[2], 2, Len(args[2]) - 1), " "),
                                     info.info)
                      \o <<sendlinef(<<")">>, <<>>)>>, "loop")

\* the answers of a collaborator call, when the handler makes it
Calls(made, results) == IF made THEN results ELSE {NoResult}

Status(c) ==
    \E parts \in Lines :
        /\ Dispatch(c, parts, caseStatus)
        /\ \E burst \in Bursts(sess[c].br),
              mb \in Calls(Len(argsOf(parts)) >= 2, MailboxResults) :
              \E info \in Calls(mb.err = Nil, InfoResults) :
                 Step(c, parts, burst,
                      serveStatus(AfterRead(c, burst), tagOf(parts), argsOf(parts), mb, info),
                      mb, info, NoResult)

\* s.mailbox, err = s.srv.Backend.Mailbox(args[0])
selected(s, mb) == [s EXCEPT !.mailbox = mb.mb]

\* case "select"
serveSelect(s, tag, args, mb, info) ==
    IF Len(args) < 1
    THEN Result(s, <<sendlinef(tagged(BAD, "Missing mailbox name"), <<tag>>)>>, "loop")
    ELSE IF mb.err # Nil THEN Result(selected(s, mb), <<mailboxError(tag, mb.err)>>, "loop")
    ELSE IF info.err # Nil
         THEN Result(selected(s, mb),
                     <<sendlinef(tagged(NO, "internal error"), <<tag>>)>>, "loop")
    ELSE Result(selected(s, mb),
                <<sendlinef(<<"* ", "FLAGS ", "(\\Answered \\Flagged \\Draft \\Deleted \\Seen)">>,
                            <<>>),
                  sendlinef(<<"* ", OK,
                              "[PERMANENTFLAGS (\\Answered \\Flagged \\Draft \\Deleted \\Seen \\*)]">>,
                            <<>>),
                  sendlinef(<<"* ", OK, "[UIDVALIDITY ", "%d", "]">>,
                            <<Itoa(info.info.UidValidity)>>),
                  sendlinef(<<"* ", OK, "[UIDNEXT ", "%d", "]">>, <<Itoa(info.info.NextUid)>>),
                  sendlinef(<<"* ", "%d", " EXISTS">>, <<Itoa(info.info.Exists)>>),
                  sendlinef(<<"* ", "%d", " RECENT">>, <<Itoa(info.info.Recent)>>),
                  sendlinef(tagged(OK, "[READ-WRITE] Completed"), <<tag>>)>>, "loop")

Select(c) ==
    \E parts \in Lines :
        /\ Dispatch(c, parts, caseSelect)
        /\ \E burst \in Bursts(sess[c].br),
              mb \in Calls(Len(argsOf(parts)) >= 1, MailboxResults) :
              \E info \in Calls(mb.err = Nil, InfoResults) :
                 Step(c, parts, burst,
                      serveSelect(AfterRead(c, burst), tagOf(parts), argsOf(parts), mb, info),
                      mb, info, NoResult)

\* case "list"
serveList(s, tag, args) ==
    IF Len(args) < 2 THEN Result(s, <<>>, "panic")
    ELSE Result(s, <<IF args[2] = <<>>
                     THEN sendlinef(<<"* ", "LIST ", "(\\Noselect) \"/\" \"/\"">>, <<>>)
                     ELSE sendlinef(<<"* ", "LIST ", "(\\HasNoChildren) \"/\" \"INBOX\"">>,
                                    <<>>),
                     sendlinef(tagged(OK, "LIST complete"), <<tag>>)>>, "loop")

List(c) ==
    \E parts \in Lines :
        /\ Dispatch(c, parts, caseList)
        /\ \E burst \in Bursts(sess[c].br) :
           Step(c, parts, burst, serveList(AfterRead(c, burst), tagOf(parts), argsOf(parts)),
                NoResult, NoResult, NoResult)

\* strings.Replace(t, `"`, `\"`, -1)
RECURSIVE escapeQuotes(_)
escapeQuotes(str) ==
    IF str = <<>> THEN <<>>
    ELSE (IF Head(str) = "\"" THEN <<"\\", "\"">> ELSE <<Head(str)>>)
            \o escapeQuotes(Tail(str))

\* session.sendobject: the writes it makes for obj
sendobject(obj) ==
    IF obj.kind = "nil" THEN <<sendf(<<"NIL">>, <<>>)>>
    ELSE IF obj.kind = "int"
         THEN <<sendf(<<"%d">>,
                      <<IF obj.n < 0 THEN <<"-">> \o Itoa(0 - obj.n) ELSE Itoa(obj.n)>>)>>
    ELSE IF obj.kind = "string"
         THEN <<sendf(<<"\"", "%s", "\"">>, <<escapeQuotes(obj.s)>>)>>
    ELSE IF obj.kind = "[]string" THEN <<sendf(<<"(", "%s", ")">>, <<JoinSp(obj.l)>>)>>
    ELSE IF obj.kind = "time.Time" THEN <<sendf(<<"\"">> \o obj.s \o <<"\"">>, <<>>)>>
    ELSE IF obj.kind = "[]byte"
         THEN <<sendf(<<"{", "%d", "}", CRLF>>, <<Itoa(Len(obj.s))>>), bwWrite(obj.s)>>
    ELSE <<>>

\* the error session.sendobject returns
sendobjectError(obj) == "imapd: unknown type in sendobject"

RECURSIVE fetchData(_, _)
fetchData(i, data) ==
    IF i > Len(data) THEN <<>>
    ELSE <<IF i = 1 THEN sendf(<<"%s", " ">>, <<String(data[i].Item)>>)
           ELSE sendf(<<" ", "%s", " ">>, <<String(data[i].Item)>>)>>
            \o sendobject(data[i].Data)
            \o fetchData(i + 1, data)

RECURSIVE fetchMessages(_)
fetchMessages(msgs) ==
    IF msgs = <<>> THEN <<>>
    ELSE <<sendf(<<"* ", "%d", " FETCH (">>, <<Itoa(Head(msgs).seqNum)>>)>>
            \o fetchData(1, Head(msgs).data)
            \o <<sendlinef(<<")">>, <<>>)>>
            \o fetchMessages(Tail(msgs))

\* args[1:] of the "uid fetch" lines that carry a range set
fetchArgs ==
    {SubSeq(l, 4, Len(l)) : l \in {l \in Lines : Len(l) >= 4 /\ cmdOf(l) = caseUid}}

\* rangeSet := parseRangeSet(args[0]), for each of these argument lists
rangeSets == [args \in fetchArgs |-> parseRangeSet(args[1])]

\* names, err := parseMessageDataItemNames(strings.Join(args[1:], " "))
itemNames == [args \in fetchArgs |-> parseMessageDataItemNames(JoinSp(Tail(args)))]

\* case "fetch" under case "uid"
serveUidFetch(s, tag, args, fetch) ==
    LET rangeSet == rangeSets[args]
        names == itemNames[args]
    IN IF Len(args) < 1 THEN Result(s, <<>>, "panic")
       ELSE IF names.panic THEN Result(s, <<>>, "panic")
       ELSE IF names.err # NoErr
            THEN Result(s, <<sendlinef(tagged(BAD, "invalid item names"), <<tag>>)>>, "loop")
       ELSE IF rangeSet.isnil
            THEN Result(s, <<sendlinef(tagged(BAD, "invalid range"), <<tag>>)>>, "loop")
       ELSE IF s.mailbox = Nil THEN Result(s, <<>>, "panic")
       ELSE IF fetch.err # Nil
            THEN Result(s, <<sendlinef(tagged(BAD, "internal error"), <<tag>>)>>, "loop")
       ELSE Result(s, fetchMessages(fetch.msgs)
                         \o <<sendlinef(tagged(OK, "Success"), <<tag>>)>>, "loop")

\* whether UID FETCH with these arguments reaches FetchMessagesByUID
fetchCalled(s, args) ==
    /\ Len(args) >= 2
    /\ ToLower(args[1]) = caseFetch
    /\ ~itemNames[Tail(args)].panic
    /\ itemNames[Tail(args)].err = NoErr
    /\ ~rangeSets[Tail(args)].isnil
    /\ s.mailbox # Nil

\* case "uid"
serveUid(s, tag, args, fetch) ==
    IF Len(args) < 1
    THEN Result(s, <<sendlinef(tagged(BAD, "Missing command"), <<tag>>)>>, "loop")
    ELSE IF ToLower(args[1]) = caseFetch THEN serveUidFetch(s, tag, Tail(args), fetch)
    ELSE Result(s, <<sendlinef(tagged(BAD, "Unknown command"), <<tag>>)>>, "loop")

Uid(c) ==
    \E parts \in Lines :
        /\ Dispatch(c, parts, caseUid)
        /\ \E burst \in Bursts(sess[c].br),
              fetch \in Calls(fetchCalled(sess[c], argsOf(parts)), FetchResults) :
              Step(c, parts, burst, serveUid(AfterRead(c, burst), tagOf(parts), argsOf(parts), fetch),
                   NoResult, NoResult, fetch)

\* the commands the switch has a case for
knownCommands ==
    {caseNoop, caseCapability, caseStarttls, caseLogin, caseClose, caseLogout,
     caseStatus, caseSelect, caseList, caseUid}

\* default
serveDefault(s, tag, args) ==
    Result(s, <<sendlinef(tagged(BAD, "Unknown command"), <<tag>>)>>, "loop")

Default(c) ==
    \E parts \in Lines :
        /\ Reads(c, parts)
        /\ Len(parts) >= 2
        /\ cmdOf(parts) \notin knownCommands
        /\ \E burst \in Bursts(sess[c].br) :
           Step(c, parts, burst, serveDefault(AfterRead(c, burst), tagOf(parts), argsOf(parts)),
                NoResult, NoResult, NoResult)

Next ==
    \/ \E c \in Conns : Accept(c)
    \/ \E c \in Conns : Greet(c)
    \/ \E c \in Conns : ReadError(c)
    \/ \E c \in Conns : TooShort(c)
    \/ \E c \in Conns : Noop(c)
    \/ \E c \in Conns : Capability(c)
    \/ \E c \in Conns : StartTLS(c)
    \/ \E c \in Conns : Login(c)
    \/ \E c \in Conns : Close(c)
    \/ \E c \in Conns : Logout(c)
    \/ \E c \in Conns : Status(c)
    \/ \E c \in Conns : Select(c)
    \/ \E c \in Conns : List(c)
    \/ \E c \in Conns : Uid(c)
    \/ \E c \in Conns : Default(c)

Spec == Init /\ [][Next]_vars

(***************************************************************************)
(* Two connections served at once: Serve accepts both, each session runs   *)
(* in its own goroutine, and the steps of the sessions and of the accept   *)
(* loop interleave.                                                        *)
(***************************************************************************)
\* the lines the clients send while two sessions are served
ConcLines ==
    {<<tEmpty>>}
        \cup {<<tagA>> \o c :
                c \in { <<kNOOP>>, <<kCAPABILITY>>, <<kSTARTTLS>>, <<kLOGIN, tUser, tPass>>,
                        <<kCLOSE>>, <<kLOGOUT>>, <<kSTATUS, tInbox, tMessages>>,
                        <<kSELECT, tInbox>>, <<kLIST>>,
                        <<kUID, kFETCH, tOne, tItemUid>>, <<kEXPUNGE>> }}

\* the step took one of these lines, alone in its Read, its writes succeeded,
\* and the backend knows the one mailbox and fails in no call
ConcInput ==
    /\ last'.parts \in ConcLines \cup {<<>>}
    /\ last'.burst <= 1
    /\ ~last'.werr
    /\ last'.mb \in {NoResult, [mb |-> "mbA", err |-> Nil]}
    /\ last'.info.err # ErrOther
    /\ last'.fetch.err # ErrOther

InitConc ==
    /\ Init
    /\ srv = [TlsConfig |-> TRUE, InsecureLogin |-> FALSE, secure |-> FALSE]

NextConc ==
    \/ \E c \in ConnIds : Accept(c)
    \/ ServeReturn
    \/ \E c \in ConnIds : Greet(c) /\ ConcInput
    \/ \E c \in ConnIds : ReadError(c) /\ ConcInput
    \/ \E c \in ConnIds : TooShort(c) /\ ConcInput
    \/ \E c \in ConnIds : Noop(c) /\ ConcInput
    \/ \E c \in ConnIds : Capability(c) /\ ConcInput
    \/ \E c \in ConnIds : StartTLS(c) /\ ConcInput
    \/ \E c \in ConnIds : Login(c) /\ ConcInput
    \/ \E c \in ConnIds : Close(c) /\ ConcInput
    \/ \E c \in ConnIds : Logout(c) /\ ConcInput
    \/ \E c \in ConnIds : Status(c) /\ ConcInput
    \/ \E c \in ConnIds : Select(c) /\ ConcInput
    \/ \E c \in ConnIds : List(c) /\ ConcInput
    \/ \E c \in ConnIds : Uid(c) /\ ConcInput
    \/ \E c \in ConnIds : Default(c) /\ ConcInput

SpecConc == InitConc /\ [][NextConc]_vars

(***************************************************************************)
(* The parsers on their own: a call is drawn from the range sets and item  *)
(* lists below, and the parser is applied to its argument.                 *)
(***************************************************************************)
\* strings.Join(elems, sep) for a one-character separator
RECURSIVE JoinBy(_, _)
JoinBy(elems, sep) ==
    IF elems = <<>> THEN <<>>
    ELSE IF Len(elems) = 1 THEN elems[1]
    ELSE elems[1] \o <<sep>> \o JoinBy(Tail(elems), sep)

\* the sequences over S of lo to hi elements
SeqsOf(S, lo, hi) == UNION {[1..n -> S] : n \in lo..hi}

\* tokens of range sets: bare numbers, ranges, open ranges, and tokens that
\* are none of these
RangeTokens ==
    { <<"1">>,
      <<"0","7">>,
      <<"2",":","4">>,
      <<"5",":","*">>,
      <<>>,
      <<"a","b","c">>,
      <<"1",":","2",":","3">>,
      <<"4","2","9","4","9","6","7","2","9","5">>,
      <<"4","2","9","4","9","6","7","2","9","6">>,
      <<"1",":">>,
      <<"3",":","4","2","9","4","9","6","7","2","9","6">> }

\* the parts BODY tokens are written from; an empty field list or partial
\* stands for none
BodyNames == {<<"B","O","D","Y">>, <<"b","o","d","y",".","p","e","e","k">>}

BodySections == {<<>>, <<"h","e","a","d","e","r",".","f","i","e","l","d","s">>}

BodyFields == {<<>>, <<<<"D","A","T","E">>, <<"F","r","o","m">>>>}

BodyPartials == {<<>>, <<<<"5">>, <<"2","0">>>>}

ItemToken(kind, text, name, section, fields, partial) ==
    [kind |-> kind, text |-> text, name |-> name, section |-> section,
     fields |-> fields, partial |-> partial]

\* name[section (fields)]<start.count>
BodyToken(name, section, fields, partial) ==
    ItemToken("body",
              name \o <<"[">> \o section
                  \o (IF fields = <<>> THEN <<>> ELSE <<" ", "(">> \o JoinBy(fields, " ") \o <<")">>)
                  \o <<"]">>
                  \o (IF partial = <<>> THEN <<>>
                      ELSE <<"<">> \o partial[1] \o <<".">> \o partial[2] \o <<">">>),
              name, section, fields, partial)

OtherToken(kind, text) == ItemToken(kind, text, text, <<>>, <<>>, <<>>)

\* item tokens: BODY tokens, simple names on the allow-list, names on no
\* list, BODY tokens with a malformed partial
ItemTokens ==
    {BodyToken(n, s, f, p) : n \in BodyNames, s \in BodySections,
                             f \in BodyFields, p \in BodyPartials}
    \cup {OtherToken("simple", w) :
            w \in {<<"U","I","D">>, <<"f","l","a","g","s">>, <<"R","F","C","8","2","2",".","S","I","Z","E">>, <<"B","o","d","y">>}}
    \cup {OtherToken("unlisted", w) : w \in {<<"I","N","V","A","L","I","D">>, <<"@","@">>}}
    \cup {OtherToken("malformed", w) : w \in {<<"B","O","D","Y","[","]","<","1","2","3",">">>, <<"B","O","D","Y","[","]","<","1","x","3",">">>}}

\* the macros, in several spellings, and a word that is none
MacroTokens ==
    {OtherToken("macro", w) :
        w \in {<<"F","A","S","T">>, <<"A","L","L">>, <<"F","U","L","L">>, <<"f","a","s","t">>, <<"A","l","l">>, <<"f","u","l","l">>, <<"F","A","S","T","E","R">>}}

ParseCall(fn, toks, paren, arg) ==
    [fn |-> fn, toks |-> toks, paren |-> paren, arg |-> arg, done |-> FALSE, res |-> Nil]

Texts(toks) == [i \in DOMAIN toks |-> toks[i].text]

ParseCalls ==
    {ParseCall("parseRangeSet", ts, FALSE, JoinBy(Texts(ts), ",")) :
        ts \in SeqsOf({OtherToken("range", w) : w \in RangeTokens}, 1, MaxRangeTokens)}
    \cup {ParseCall("parseMessageDataItemNames", ts, TRUE,
                    <<"(">> \o JoinBy(Texts(ts), " ") \o <<")">>) :
            ts \in SeqsOf(ItemTokens, 0, MaxItemTokens)}
    \cup {ParseCall("parseMessageDataItemNames", <<w>>, FALSE, w.text) :
            w \in ItemTokens \cup MacroTokens}

\* no server runs; a call is chosen
InitParse ==
    /\ srv = [TlsConfig |-> FALSE, InsecureLogin |-> FALSE, secure |-> FALSE]
    /\ listening = FALSE
    /\ crashed = FALSE
    /\ sess = [c \in ConnIds |-> newSession(c)]
    /\ last = NoStep
    /\ resp = <<>>
    /\ call \in ParseCalls

CallParseRangeSet ==
    /\ call.fn = "parseRangeSet" /\ ~call.done
    /\ call' = [call EXCEPT !.done = TRUE, !.res = parseRangeSet(call.arg)]
    /\ UNCHANGED <<srv, listening, crashed, sess, last, resp>>

CallParseMessageDataItemNames ==
    /\ call.fn = "parseMessageDataItemNames" /\ ~call.done
    /\ call' = [call EXCEPT !.done = TRUE, !.res = parseMessageDataItemNames(call.arg)]
    /\ UNCHANGED <<srv, listening, crashed, sess, last, resp>>

\* String() of every item of an accepted list, as the reply loop of UID
\* FETCH calls it to label the data
CallString ==
    /\ call.fn = "parseMessageDataItemNames" /\ call.done
    /\ ~call.res.panic /\ call.res.err = NoErr /\ ~call.res.items.isnil
    /\ call' = [call EXCEPT
                  !.fn = "String",
                  !.res = [items |-> call.res.items.elems,
                           strings |-> [i \in DOMAIN call.res.items.elems |->
                                           String(call.res.items.elems[i])]]]
    /\ UNCHANGED <<srv, listening, crashed, sess, last, resp>>

NextParse ==
    \/ CallParseRangeSet
    \/ CallParseMessageDataItemNames
    \/ CallString

SpecParse == InitParse /\ [][NextParse]_vars

(***************************************************************************)
(* What a step shows: the line it handled and the lines it wrote.          *)
(***************************************************************************)
\* the last step handled a line whose command, lower-cased, is cmd
Handled(cmd) == last.op = "command" /\ cmdOf(last.parts) = cmd

\* the last step read a line
ReadLine == last.op \in {"command", "tooShort"}

\* text begins with tag, a space and the status word
IsTagged(text, tag, status) ==
    /\ Len(text) >= Len(tag) + 2
    /\ SubSeq(text, 1, Len(tag)) = tag
    /\ text[Len(tag) + 1] = " "
    /\ text[Len(tag) + 2] = status

\* the pieces of text that follow the status word
After(text, tag) == SubSeq(text, Len(tag) + 3, Len(text))

\* the last step attempted exactly one write: a tagged line of this status
Answered(status) ==
    /\ Len(last.att) = 1
    /\ IsTagged(last.att[1].text, tagOf(last.parts), status)
    /\ last.att[1].flush
    /\ ~last.werr => resp = <<last.att[1].text>>

\* the bytes that reached the transport in the last step
Sent == Flatten(resp)

\* the positions of Sent at which a line starts
LineStarts ==
    {p \in DOMAIN Sent : p = 1 \/ Sent[p - 1] = CRLF}

\* the line starts of Sent at which tag and a space stand
TaggedStarts(tag) ==
    {p \in LineStarts : /\ p + Len(tag) <= Len(Sent)
                        /\ SubSeq(Sent, p, p + Len(tag)) = tag \o <<" ">>}

(***************************************************************************)
(* Claims.                                                                 *)
(***************************************************************************)
\* C1: after a LOGOUT the session has written the untagged BYE line and then
\* the tagged OK line with the command's tag, and has terminated: it reads no
\* further line and the connection is closed.
C1_LogoutTerminates ==
    Handled(caseLogout) =>
        /\ Len(last.att) = 2
        /\ SubSeq(last.att[1].text, 1, 2) = <<"* ", "BYE ">>
        /\ IsTagged(last.att[2].text, tagOf(last.parts), OK)
        /\ ~last.werr => resp = <<last.att[1].text, last.att[2].text>>
        /\ sess[last.c].pc = "closed"

\* C2: a SELECT whose Backend.Mailbox or Mailbox.Info fails is answered with
\* a tagged NO and leaves the selected mailbox as it was before the command.
C2_FailedSelectKeepsMailbox ==
    [][(Handled(caseSelect)' /\ (last'.mb.err \in {ErrUnknownMailbox, ErrOther}
                                  \/ last'.info.err = ErrOther))
        => /\ Answered(NO)'
           /\ sess'[last'.c].mailbox = sess[last'.c].mailbox]_vars

\* C3: when no write fails, a line of at least a tag and a command gets
\* exactly one tagged response line, which begins with the client's tag and
\* is the last line written for the command.
C3_OneTaggedResponse ==
    (last.op = "command" /\ ~last.werr) =>
        /\ Cardinality(TaggedStarts(tagOf(last.parts))) = 1
        /\ \A p \in LineStarts : \E q \in TaggedStarts(tagOf(last.parts)) : p <= q
        /\ Sent[Len(Sent)] = CRLF

\* C4: a session holds a selected mailbox only if it is authenticated.
C4_SelectedOnlyIfAuthenticated ==
    \A c \in ConnIds : sess[c].mailbox # Nil => sess[c].authenticated

\* C5: LOGIN sets authenticated and answers a tagged OK exactly when the
\* session is secure or the server allows insecure login; otherwise it answers
\* a tagged NO and authenticated, secure and the selected mailbox are unchanged.
C5_LoginGate ==
    [][Handled(caseLogin)' =>
        IF sess[last'.c].secure \/ srv.InsecureLogin
        THEN /\ sess'[last'.c].authenticated
             /\ Answered(OK)'
        ELSE /\ Answered(NO)'
             /\ sess'[last'.c].authenticated = sess[last'.c].authenticated
             /\ sess'[last'.c].secure = sess[last'.c].secure
             /\ sess'[last'.c].mailbox = sess[last'.c].mailbox]_vars

\* a LOGIN before STARTTLS with insecure login disabled was refused
C5_Witness ==
    /\ Handled(caseLogin)
    /\ srv.TlsConfig /\ ~srv.InsecureLogin /\ ~sess[last.c].secure
    /\ ~sess[last.c].authenticated
    /\ Answered(NO)

\* C6: a successful STARTTLS writes and flushes its output on the old
\* transport and then replaces the transport, the buffered reader and the
\* buffered writer together; the line read next comes from a Read of the TLS
\* stream, never from what the plaintext reader had buffered, and every
\* session reads and writes through its current transport.
C6_UpgradeSwapsTogether ==
    [][/\ last'.hs = "ok" =>
            /\ Handled(caseStarttls)'
            /\ ~last'.werr => Sent' = last'.att[1].text
            /\ sess'[last'.c].rwc = tlsServer(sess[last'.c].rwc)
            /\ sess'[last'.c].br = bufioNewReader(sess'[last'.c].rwc)
            /\ sess'[last'.c].bw = bufioNewWriter(sess'[last'.c].rwc)
            /\ sess'[last'.c].pc = "loop"
       /\ (last.hs = "ok" /\ ReadLine' /\ last'.c = last.c) =>
            /\ last'.burst >= 1
            /\ last'.rd = tlsServer(last.rd)
       /\ \A c \in ConnIds : /\ sess'[c].br.conn = sess'[c].rwc
                             /\ sess'[c].bw.conn = sess'[c].rwc]_vars

\* a STARTTLS succeeded while the plaintext reader held an unread line
C6_Witness ==
    /\ Handled(caseStarttls) /\ last.hs = "ok"
    /\ last.burst = MaxBurst
    /\ sess[last.c].br.buffered = 0
    /\ sess[last.c].rwc = tlsServer(last.rd)

\* C7: STARTTLS on a secure session is answered NO "connection already
\* secure", and on an insecure session of a server without TLS material NO
\* "TLS not configured"; in both cases no handshake is attempted and secure,
\* authenticated, the selected mailbox, the transport, the reader and the
\* writer are unchanged (the reader but for the read of the line itself).
C7_StartTLSRefused ==
    [][(Handled(caseStarttls)' /\ (sess[last'.c].secure \/ ~srv.TlsConfig)) =>
        /\ Answered(NO)'
        /\ After(last'.att[1].text, tagOf(last'.parts)) =
              <<IF sess[last'.c].secure THEN "connection already secure"
                ELSE "TLS not configured", CRLF>>
        /\ last'.hs = "none"
        /\ sess'[last'.c].pc = "loop"
        /\ sess'[last'.c].secure = sess[last'.c].secure
        /\ sess'[last'.c].authenticated = sess[last'.c].authenticated
        /\ sess'[last'.c].mailbox = sess[last'.c].mailbox
        /\ sess'[last'.c].rwc = sess[last'.c].rwc
        /\ sess'[last'.c].br = ReadSlice(sess[last'.c].br, last'.burst)
        /\ ~last'.werr => sess'[last'.c].bw = sess[last'.c].bw]_vars

\* a second STARTTLS after a successful one was refused
C7_Witness ==
    /\ Handled(caseStarttls) /\ last.hs = "none"
    /\ ~srv.secure /\ sess[last.c].secure
    /\ Answered(NO)

\* C8: secure never goes back to false, and it becomes true only when the
\* connection is accepted on a secure listener or by a STARTTLS whose
\* handshake succeeded.
C8_SecureMonotonic ==
    [][\A c \in ConnIds :
        /\ sess[c].secure => sess'[c].secure
        /\ (~sess[c].secure /\ sess'[c].secure) =>
              \/ last'.op = "accept" /\ last'.c = c /\ srv.secure
              \/ Handled(caseStarttls)' /\ last'.c = c /\ last'.hs = "ok"]_vars

\* a session upgraded by STARTTLS is still secure after a later command
C8_Witness ==
    /\ last.op = "command" /\ last.hs = "none"
    /\ ~srv.secure /\ sess[last.c].secure

\* C9: a session that has read a command ends only on a failed write, a
\* failed handshake or a LOGOUT: after every other command, whatever its
\* arguments and whether or not a mailbox is selected, it is still alive.
C9_SessionSurvivesCommands ==
    (last.op = "command" /\ sess[last.c].pc = "closed") =>
        \/ last.werr
        \/ last.hs = "failed"
        \/ cmdOf(last.parts) = caseLogout

\* C10: after a line of fewer than two tokens, a failed read, a failed write
\* or a failed handshake the session is over: the connection is closed and no
\* further line is read.
C10_FatalConditionsEndSession ==
    (last.op \in {"tooShort", "readError"} \/ last.werr \/ last.hs = "failed") =>
        sess[last.c].pc = "closed"

(***************************************************************************)
(* The grammars of the range set and of the item list, token by token.     *)
(***************************************************************************)
\* t is the decimal numeral of an unsigned 32-bit integer
IsUint32(t) == AllDigits(t) /\ NumLeq(Canon(t), MaxUint32)

Colons(t) == {i \in DOMAIN t : t[i] = ":"}

\* the Range a token of a range set stands for: n, a:b or a:*; none otherwise
GrammarRange(t) ==
    IF Colons(t) = {}
    THEN IF IsUint32(t) THEN <<RangeOf(Canon(t), Zero, FALSE)>> ELSE <<>>
    ELSE IF Cardinality(Colons(t)) # 1 THEN <<>>
    ELSE LET i == CHOOSE j \in Colons(t) : TRUE
             a == SubSeq(t, 1, i - 1)
             b == SubSeq(t, i + 1, Len(t))
         IN IF ~IsUint32(a) THEN <<>>
            ELSE IF b = <<"*">> THEN <<RangeOf(Canon(a), Zero, TRUE)>>
            ELSE IF IsUint32(b) THEN <<RangeOf(Canon(a), Canon(b), FALSE)>>
            ELSE <<>>

\* every comma-separated token of rs is a range
ValidRangeSet(rs) == \A t \in Elems(Split(rs, ",")) : GrammarRange(t) # <<>>

HasPrefix(w, pre) == Len(w) >= Len(pre) /\ ToUpper(SubSeq(w, 1, Len(pre))) = pre

\* w is a BODY[...] or BODY.PEEK[...] token
IsBodyToken(w) ==
    \/ HasPrefix(w, <<"B","O","D","Y","[">>)
    \/ HasPrefix(w, <<"B","O","D","Y",".","P","E","E","K","[">>)

\* the name of the item token w is on the allow-list
Listed(w) == ToUpper(w) \in validDataItemNames \/ IsBodyToken(w)

IsMacro(w) == ToUpper(w) \in {<<"F","A","S","T">>, <<"A","L","L">>, <<"F","U","L","L">>}

\* the item tokens of the words of a command line that make up "(w1 ... wn)"
ItemWords(words) ==
    [i \in DOMAIN words |->
        LET w == words[i]
            from == IF i = 1 /\ w # <<>> /\ w[1] = "(" THEN 2 ELSE 1
            to == IF i = Len(words) /\ w # <<>> /\ w[Len(w)] = ")" THEN Len(w) - 1 ELSE Len(w)
        IN SubSeq(w, from, to)]

\* the words are no macro and hold an item token that is not on the allow-list
InvalidItemWords(words) ==
    /\ words # <<>>
    /\ ~(Len(words) = 1 /\ IsMacro(words[1]))
    /\ \E w \in Elems(ItemWords(words)) : ~Listed(w)

\* the line is one of the client errors the server is to answer with BAD
ClientError(parts) ==
    LET cmd == cmdOf(parts)
        args == argsOf(parts)
        fetch == cmd = caseUid /\ Len(args) >= 1 /\ ToLower(args[1]) = caseFetch
    IN \/ cmd \notin knownCommands
       \/ cmd = caseUid /\ Len(args) >= 1 /\ ToLower(args[1]) # caseFetch
       \/ fetch /\ Len(args) >= 2 /\ ~ValidRangeSet(args[2])
       \/ fetch /\ Len(args) >= 3 /\ InvalidItemWords(SubSeq(args, 3, Len(args)))

\* C11: an unknown command, an unknown sub-command of UID, an invalid range
\* set or an invalid item list is answered with one tagged BAD, leaves secure,
\* authenticated and the selected mailbox as they were, makes no call of
\* FetchMessagesByUID, and the session goes on to read the next line.
C11_ClientErrorsAnsweredBad ==
    [][(last'.op = "command" /\ ClientError(last'.parts)) =>
        /\ Answered(BAD)'
        /\ last'.fetch = NoResult
        /\ last'.ret = "loop"
        /\ sess'[last'.c].pc = "loop"
        /\ sess'[last'.c].secure = sess[last'.c].secure
        /\ sess'[last'.c].authenticated = sess[last'.c].authenticated
        /\ sess'[last'.c].mailbox = sess[last'.c].mailbox]_vars

\* a collaborator call of the last step returned an error
CollaboratorFailed ==
    \/ last.mb.err \in {ErrUnknownMailbox, ErrOther}
    \/ last.info.err = ErrOther
    \/ last.fetch.err = ErrOther

\* C12: when Backend.Mailbox, Mailbox.Info or Mailbox.FetchMessagesByUID
\* returns an error, the command is answered with one tagged NO, "unknown
\* mailbox" for ErrUnknownMailbox and otherwise a text that does not hold the
\* error's text, and the session goes on reading.
C12_CollaboratorErrorsAnsweredNo ==
    (last.op = "command" /\ CollaboratorFailed) =>
        /\ Answered(NO)
        /\ last.mb.err = ErrUnknownMailbox =>
              After(last.att[1].text, tagOf(last.parts)) = <<"unknown mailbox", CRLF>>
        /\ \A i \in DOMAIN last.att[1].text :
              last.att[1].text[i] \notin {ErrUnknownMailbox, ErrOther}
        /\ last.ret = "loop"
        /\ sess[last.c].pc = "loop"

\* C13: CLOSE is answered with one tagged OK whatever the state, and leaves
\* the session with no selected mailbox and with secure and authenticated as
\* they were.
C13_CloseDropsMailbox ==
    [][Handled(caseClose)' =>
        /\ Answered(OK)'
        /\ sess'[last'.c].mailbox = Nil
        /\ sess'[last'.c].secure = sess[last'.c].secure
        /\ sess'[last'.c].authenticated = sess[last'.c].authenticated]_vars

\* the words of the untagged line "* CAPABILITY w1 w2 ..." text
CapabilityWords(text) ==
    [i \in 1..((Len(text) - 2) \div 2) |-> text[2 * i + 1]]

\* the text is "* CAPABILITY", words separated by single spaces, CRLF
IsCapabilityLine(text) ==
    /\ Len(text) >= 4 /\ Len(text) % 2 = 0
    /\ SubSeq(text, 1, 2) = <<"* ", "CAPABILITY ">>
    /\ text[Len(text)] = CRLF
    /\ \A i \in 3..(Len(text) - 1) : (i % 2 = 0) <=> (text[i] = " ")

LoginMarkers == {"AUTH=login", "LOGINDISABLED"}

\* C14: CAPABILITY writes the untagged line and then the tagged OK; the line
\* lists IMAP4rev1 always, STARTTLS exactly when the server has TLS material,
\* whether or not the session is secure, and exactly one login marker:
\* AUTH=login when the session is secure or insecure login is allowed,
\* LOGINDISABLED otherwise; a LOGIN that follows in the same state succeeds
\* exactly when the line listed AUTH=login.
C14_CapabilityLine ==
    [][/\ Handled(caseCapability)' =>
            LET words == CapabilityWords(last'.att[1].text)
                login == {i \in DOMAIN words : words[i] \in LoginMarkers}
            IN /\ Len(last'.att) = 2
               /\ IsCapabilityLine(last'.att[1].text)
               /\ "IMAP4rev1" \in Elems(words)
               /\ "STARTTLS" \in Elems(words) <=> srv.TlsConfig
               /\ Cardinality(login) = 1
               /\ "AUTH=login" \in Elems(words)
                     <=> (sess[last'.c].secure \/ srv.InsecureLogin)
               /\ IsTagged(last'.att[2].text, tagOf(last'.parts), OK)
               /\ ~last'.werr => resp' = <<last'.att[1].text, last'.att[2].text>>
       /\ (Handled(caseCapability) /\ Handled(caseLogin)' /\ last'.c = last.c) =>
            (Answered(OK)' <=> "AUTH=login" \in Elems(CapabilityWords(last.att[1].text)))]_vars

\* CAPABILITY after a successful STARTTLS, on a server that refuses insecure
\* login, listed STARTTLS and AUTH=login
C14_Witness ==
    /\ Handled(caseCapability) /\ ~last.werr
    /\ srv.TlsConfig /\ ~srv.InsecureLogin /\ ~srv.secure /\ sess[last.c].secure
    /\ CapabilityWords(last.att[1].text) = <<"IMAP4rev1", "STARTTLS", "AUTH=login">>

\* parseMessageDataItemNames has been applied to the chosen item list
ItemsParsed == call.fn = "parseMessageDataItemNames" /\ call.done

\* the positions of the tokens whose name is on no allow-list
Unlisted(toks) == {i \in DOMAIN toks : toks[i].kind = "unlisted"}

\* C15: an item list that holds a token whose name is not on the allow-list
\* is never accepted: parseMessageDataItemNames returns the invalid-item error
\* that names the first such token.
C15_UnlistedTokenRejected ==
    (ItemsParsed /\ Unlisted(call.toks) # {}) =>
        LET first == CHOOSE i \in Unlisted(call.toks) : \A j \in Unlisted(call.toks) : i <= j
        IN /\ ~call.res.panic
           /\ call.res.err.kind = "ErrInvalidDataItem"
           /\ TrimSpace(call.res.err.text) = call.toks[first].text

\* parseRangeSet has been applied to the chosen range set
RangesParsed == call.fn = "parseRangeSet" /\ call.done

\* C16: when every comma-separated token of the range set is n, a:b or a:*
\* with unsigned 32-bit numbers, parseRangeSet returns one Range per token, in
\* the order of the tokens: {n,0,false}, {a,b,false}, {a,0,true}; when one
\* token is anything else (empty, two colons, a start or end that is no
\* number or exceeds 4294967295) it returns nil and no Range at all.
C16_RangeSetAllOrNothing ==
    RangesParsed =>
        LET toks == Texts(call.toks)
        IN IF \A i \in DOMAIN toks : GrammarRange(toks[i]) # <<>>
           THEN call.res = Slice([i \in DOMAIN toks |-> GrammarRange(toks[i])[1]])
           ELSE call.res = NilSlice

\* "1,2:4,5:*" was parsed into its three ranges
C16_Witness ==
    /\ RangesParsed
    /\ call.arg = <<"1", ",", "2", ":", "4", ",", "5", ":", "*">>
    /\ call.res = Slice(<<RangeOf(<<"1">>, Zero, FALSE), RangeOf(<<"2">>, <<"4">>, FALSE),
                          RangeOf(<<"5">>, Zero, TRUE)>>)

\* the item names a macro stands for
MacroItems(w) ==
    LET fast == <<ItemName(<<"F","L","A","G","S">>),
                  ItemName(<<"I","N","T","E","R","N","A","L","D","A","T","E">>),
                  ItemName(<<"R","F","C","8","2","2",".","S","I","Z","E">>)>>
        all == Append(fast, ItemName(<<"E","N","V","E","L","O","P","E">>))
    IN IF w = <<"F","A","S","T">> THEN fast
       ELSE IF w = <<"A","L","L">> THEN all
       ELSE Append(all, ItemName(<<"B","O","D","Y">>))

\* C17: the bare word FAST, ALL or FULL, in any letter case, is parsed into
\* the macro's item names in their fixed order: FLAGS, INTERNALDATE,
\* RFC822.SIZE; then ENVELOPE for ALL; then BODY for FULL.
C17_MacrosAnyCase ==
    (ItemsParsed /\ ~call.paren /\ IsMacro(call.arg)) =>
        call.res = Parsed(Slice(MacroItems(ToUpper(call.arg))), NoErr)

\* the item a well-formed token stands for
TokenItem(tok) ==
    IF tok.kind = "body"
    THEN [Name |-> ToUpper(tok.name) \o <<"[", "]">>, Section |-> ToUpper(tok.section),
          FieldNames |-> tok.fields, Partial |-> tok.partial]
    ELSE [Name |-> ToUpper(tok.text), Section |-> <<>>, FieldNames |-> <<>>, Partial |-> <<>>]

\* the chosen list is made of simple names and BODY tokens, and was accepted
AcceptedItems ==
    /\ ItemsParsed
    /\ \A i \in DOMAIN call.toks : call.toks[i].kind \in {"simple", "body"}
    /\ ~call.res.panic
    /\ call.res.err = NoErr

\* C18: of an accepted list, every BODY or BODY.PEEK token, with or without
\* section, field names and partial, gives an item whose Name is exactly
\* BODY[] or BODY.PEEK[] and whose Section, FieldNames (in the order written)
\* and Partial (start, count) carry the rest; a simple name gives an item
\* with only Name set; the items stand in the order of the tokens.
C18_BodyItemsNormalised ==
    AcceptedItems =>
        /\ call.res.items = Slice([i \in DOMAIN call.toks |-> TokenItem(call.toks[i])])
        /\ \A i \in DOMAIN call.toks :
              call.toks[i].kind = "body" =>
                 call.res.items.elems[i].Name \in
                    {<<"B","O","D","Y","[","]">>, <<"B","O","D","Y",".","P","E","E","K","[","]">>}

\* a list of a BODY.PEEK token with section, field names and partial, and of a
\* simple name, was accepted
C18_Witness ==
    /\ AcceptedItems /\ call.paren /\ Len(call.toks) = 2
    /\ call.toks[1].kind = "body" /\ call.toks[2].kind = "simple"
    /\ call.toks[1].section # <<>> /\ call.toks[1].fields # <<>> /\ call.toks[1].partial # <<>>
    /\ call.res.items.elems[1].Name = <<"B","O","D","Y",".","P","E","E","K","[","]">>
    /\ Len(call.res.items.elems[1].FieldNames) = 2
    /\ Len(call.res.items.elems[1].Partial) = 2

\* the name and value written for a STATUS item; nothing for an unknown item
StatusEntry(it, info) ==
    LET name == ToUpper(it)
    IN IF name = <<"M","E","S","S","A","G","E","S">> THEN <<<<"MESSAGES ">> \o Itoa(info.Exists)>>
       ELSE IF name = <<"R","E","C","E","N","T">> THEN <<<<"RECENT ">> \o Itoa(info.Recent)>>
       ELSE IF name = <<"U","I","D","N","E","X","T">> THEN <<<<"UIDNEXT ">> \o Itoa(info.NextUid)>>
       ELSE IF name = <<"U","I","D","V","A","L","I","D","I","T","Y">>
            THEN <<<<"UIDVALIDITY ">> \o Itoa(info.UidValidity)>>
       ELSE IF name = <<"U","N","S","E","E","N">> THEN <<<<"UNSEEN ">> \o Itoa(info.Unseen)>>
       ELSE <<>>

RECURSIVE StatusEntries(_, _)
StatusEntries(items, info) ==
    IF items = <<>> THEN <<>>
    ELSE StatusEntry(Head(items), info) \o StatusEntries(Tail(items), info)

\* the untagged line for the requested items: the known ones in the order
\* requested, one space between them
StatusLine(mailbox, items, info) ==
    <<"* ", "STATUS ">> \o mailbox \o <<" (">>
        \o JoinBy(StatusEntries(items, info), " ") \o <<")", CRLF>>

\* C19: a STATUS whose mailbox and snapshot are found writes the untagged
\* line "* STATUS mailbox (...)" that holds exactly the requested items among
\* MESSAGES, RECENT, UIDNEXT, UIDVALIDITY and UNSEEN, in any letter case, each
\* with its value of the one snapshot, in the order requested and separated
\* by single spaces; an unknown item adds nothing and is no error.
C19_StatusEchoesRequestedItems ==
    (Handled(caseStatus) /\ last.mb.err = Nil /\ last.info.err = Nil /\ ~last.werr) =>
        LET args == argsOf(last.parts)
            line == StatusLine(args[1], ItemWords(Tail(args)), last.info.info)
        IN /\ Len(Sent) >= Len(line)
           /\ SubSeq(Sent, 1, Len(line)) = line
           /\ last.ret = "loop"

\* the dynamic types the encoder has a case for: nil, int, string, []string,
\* time.Time, []byte
EncodedKinds == {"nil", "int", "string", "[]string", "time.Time", "[]byte"}

\* the last step was a UID FETCH whose FetchMessagesByUID returned messages
Fetched == Handled(caseUid) /\ last.fetch.err = Nil

\* the values FetchMessagesByUID returned
FetchedValues ==
    UNION {{last.fetch.msgs[i].data[j].Data : j \in DOMAIN last.fetch.msgs[i].data} :
             i \in DOMAIN last.fetch.msgs}

\* C20: sendobject returns an error exactly for a value that is none of nil,
\* int, string, []string, time.Time and []byte; when FetchMessagesByUID
\* returns such a value the response is abandoned (no tagged OK is written)
\* and the connection is closed, and otherwise the response is completed with
\* the tagged OK and the session goes on.
C20_EncodingErrorAbandonsResponse ==
    (Fetched /\ ~last.werr) =>
        /\ \A v \in FetchedValues : (sendobjectError(v) # Nil) <=> (v.kind \notin EncodedKinds)
        /\ IF \E v \in FetchedValues : v.kind \notin EncodedKinds
           THEN /\ TaggedStarts(tagOf(last.parts)) = {}
                /\ sess[last.c].pc = "closed"
           ELSE /\ IsTagged(last.att[Len(last.att)].text, tagOf(last.parts), OK)
                /\ Cardinality(TaggedStarts(tagOf(last.parts))) = 1
                /\ sess[last.c].pc = "loop"

\* session c is being served: accepted, not ended, in a running process
Alive(c) == ~crashed /\ sess[c].pc \in {"serve", "loop"}

\* C21: whatever the interleaving of the sessions and of the accept loop, a
\* step of one session, or the return of Serve, leaves every other session as
\* it was: its secure, authenticated and selected mailbox, its transport,
\* reader and writer, and whether it is still served; what the step writes
\* goes to the stepping session's own transport.
C21_SessionsIndependent ==
    [][\A c \in ConnIds :
        last'.c # c =>
            /\ sess'[c] = sess[c]
            /\ Alive(c) => Alive(c)'
            /\ resp' # <<>> => sess[last'.c].bw.conn # sess[c].bw.conn]_vars

\* the token written with its name and section in upper case
UpperToken(tok) ==
    IF tok.kind = "body"
    THEN BodyToken(ToUpper(tok.name), ToUpper(tok.section), tok.fields, tok.partial).text
    ELSE ToUpper(tok.text)

\* C22: for a single accepted token, a simple name on the allow-list or a
\* BODY or BODY.PEEK token with an empty or non-empty section, with or without
\* field names and partial, String() of the parsed item is the token with its
\* name and section in upper case.
C22_ParseStringRoundTrip ==
    (/\ call.fn = "String"
     /\ Len(call.toks) = 1
     /\ call.toks[1].kind \in {"simple", "body"}) =>
        call.res.strings = <<UpperToken(call.toks[1])>>

====
